---- MODULE Spec2Model ----
(***************************************************************************)
(* A model of the scalar coercers of tabutils/convert.py: to_bool, to_int, *)
(* to_float, to_decimal, to_datetime, to_date and to_time.                 *)
(*                                                                         *)
(* Text is a sequence of one-character strings, so that lower-casing,      *)
(* separator stripping, substring search, substring replacement, number    *)
(* parsing and date parsing are computed character by character.  A Python *)
(* value is a record [type, s]: type "str"/"unicode" with its characters,  *)
(* "NoneType", "bool" or "int" (s then holds the printed digits).          *)
(* A call either returns a value, returns None, or lets an exception       *)
(* escape; the outcome is the record kept in `result`.                     *)
(***************************************************************************)
EXTENDS Integers, Sequences, FiniteSets, TLC

(***************************************************************************)
(* Bounds of the model.                                                    *)
(***************************************************************************)
\* `places` ranges over 0 .. MaxPlaces
MaxPlaces == 3
\* the caller-supplied `trues` collections hold at most MaxTrues tokens
MaxTrues == 2

(***************************************************************************)
(* Python values.                                                          *)
(***************************************************************************)
PyStr(chars) == [type |-> "str", s |-> chars]
PyUnicode(chars) == [type |-> "unicode", s |-> chars]
None == [type |-> "NoneType", s |-> <<>>]
PyTrue == [type |-> "bool", s |-> <<"1">>]
PyFalse == [type |-> "bool", s |-> <<"0">>]
PyInt(chars) == [type |-> "int", s |-> chars]

IsText(v) == v.type \in {"str", "unicode"}

\* outcomes of a call or of a library routine
Return(v) == [kind |-> "ok", exc |-> "", val |-> v]
Raise(e) == [kind |-> "raise", exc |-> e, val |-> None]
ReturnNone == [kind |-> "null", exc |-> "", val |-> None]

(***************************************************************************)
(* Characters.                                                             *)
(***************************************************************************)
DigitChars == <<"0", "1", "2", "3", "4", "5", "6", "7", "8", "9">>
Digits == {DigitChars[i] : i \in 1..10}
DigitVal(c) == (CHOOSE i \in 1..10 : DigitChars[i] = c) - 1

RECURSIVE DigitsToNat(_)
DigitsToNat(s) ==
    IF s = <<>> THEN 0
    ELSE DigitsToNat(SubSeq(s, 1, Len(s) - 1)) * 10 + DigitVal(s[Len(s)])

RECURSIVE Pow10(_)
Pow10(k) == IF k <= 0 THEN 1 ELSE 10 * Pow10(k - 1)

\* it.repeat(c, k): nothing when k is not positive
Repeat(c, k) == IF k <= 0 THEN <<>> ELSE [i \in 1..k |-> c]

Abs(x) == IF x < 0 THEN -x ELSE x
Sign(x) == IF x < 0 THEN -1 ELSE 1

\* unicode.lower / str.lower on the letters the inputs use
UpperChars == <<"Y", "N", "T", "S">>
LowerChars == <<"y", "n", "t", "s">>
LowerChar(c) ==
    IF \E i \in 1..Len(UpperChars) : UpperChars[i] = c
    THEN LowerChars[CHOOSE i \in 1..Len(UpperChars) : UpperChars[i] = c]
    ELSE c
LowerSeq(s) == [i \in 1..Len(s) |-> LowerChar(s[i])]

(***************************************************************************)
(* fntools.strip: remove the currency symbols and the thousands separator, *)
(* then turn the decimal separator into '.'.  The routine works on text;   *)
(* what it does with None is not described, so a None argument either      *)
(* fails inside the routine or is handed back unchanged.                   *)
(***************************************************************************)
CURRENCIES == {"$", "E"}

RECURSIVE StripChars(_, _, _)
StripChars(s, thousand_sep, decimal_sep) ==
    IF s = <<>> THEN <<>>
    ELSE LET c == Head(s)
             rest == StripChars(Tail(s), thousand_sep, decimal_sep)
         IN  IF c \in CURRENCIES \/ c = thousand_sep THEN rest
             ELSE IF c = decimal_sep THEN <<".">> \o rest
             ELSE <<c>> \o rest

strip(value, thousand_sep, decimal_sep) ==
    IF IsText(value)
    THEN {Return([value EXCEPT !.s = StripChars(value.s, thousand_sep, decimal_sep)])}
    ELSE {Raise("AttributeError"), Raise("TypeError"), Return(value)}

(***************************************************************************)
(* Number literals: an optional sign, digits, at most one '.', at least    *)
(* one digit.  A parsed number is [n, d]: the value n / 10^d, d being the  *)
(* number of digits after the point.                                       *)
(***************************************************************************)
Unsigned(s) == IF s # <<>> /\ s[1] \in {"-", "+"} THEN Tail(s) ELSE s
DotsOf(s) == {i \in 1..Len(s) : s[i] = "."}
IsNumeral(s) ==
    LET b == Unsigned(s)
    IN  /\ \A i \in 1..Len(b) : b[i] \in Digits \/ b[i] = "."
        /\ Cardinality(DotsOf(b)) <= 1
        /\ \E i \in 1..Len(b) : b[i] \in Digits
Numeral(s) ==
    LET b == Unsigned(s)
        dot == IF DotsOf(b) = {} THEN Len(b) + 1 ELSE CHOOSE i \in DotsOf(b) : TRUE
        ipart == SubSeq(b, 1, dot - 1)
        fpart == SubSeq(b, dot + 1, Len(b))
        mag == DigitsToNat(ipart \o fpart)
    IN  [n |-> IF s[1] = "-" THEN -mag ELSE mag, d |-> Len(fpart)]

\* float(x): ValueError on text that is no number, TypeError on None
float(x) ==
    IF ~IsText(x) THEN Raise("TypeError")
    ELSE IF IsNumeral(x.s) THEN Return(Numeral(x.s))
    ELSE Raise("ValueError")

\* int(f): truncation towards zero
int(f) == [n |-> Sign(f.n) * (Abs(f.n) \div Pow10(f.d)), d |-> 0]

\* Decimal(x): InvalidOperation on text that is no number, TypeError on None
Decimal(x) ==
    IF ~IsText(x) THEN Raise("TypeError")
    ELSE IF IsNumeral(x.s) THEN Return(Numeral(x.s))
    ELSE Raise("InvalidOperation")

\* Decimal.quantize(template, rounding) for a template of q fractional digits
quantize(dec, q, rounding) ==
    IF dec.d <= q THEN [n |-> dec.n * Pow10(q - dec.d), d |-> q]
    ELSE LET unit == Pow10(dec.d - q)
             quo == Abs(dec.n) \div unit
             rem == Abs(dec.n) % unit
             up == \/ 2 * rem > unit
                   \/ 2 * rem = unit /\ rounding = "ROUND_HALF_UP"
         IN  [n |-> Sign(dec.n) * (IF up THEN quo + 1 ELSE quo), d |-> q]

(***************************************************************************)
(* Text search and replacement: `x in content`, content.replace(old, new)  *)
(* (every non-overlapping occurrence, left to right), str(n).              *)
(***************************************************************************)
Contains(s, sub) ==
    \E i \in 1..(Len(s) - Len(sub) + 1) : SubSeq(s, i, i + Len(sub) - 1) = sub

RECURSIVE replace(_, _, _)
replace(s, old, new) ==
    IF Len(s) < Len(old) THEN s
    ELSE IF SubSeq(s, 1, Len(old)) = old
         THEN new \o replace(SubSeq(s, Len(old) + 1, Len(s)), old, new)
         ELSE <<Head(s)>> \o replace(Tail(s), old, new)

RECURSIVE str(_)
str(n) == IF n < 10 THEN <<DigitChars[n + 1]>> ELSE str(n \div 10) \o <<DigitChars[(n % 10) + 1]>>

\* zero-padded decimal of width w
Pad(n, w) == Repeat("0", w - Len(str(n))) \o str(n)

RECURSIVE Split(_, _)
Split(s, sep) ==
    IF \A i \in 1..Len(s) : s[i] # sep THEN <<s>>
    ELSE LET k == CHOOSE i \in 1..Len(s) : s[i] = sep /\ \A j \in 1..(i - 1) : s[j] # sep
         IN  <<SubSeq(s, 1, k - 1)>> \o Split(SubSeq(s, k + 1, Len(s)), sep)

(***************************************************************************)
(* Dates.  dateutil.parser.parse(timestr, default=DEFAULT_DATETIME) on the *)
(* shapes 'a/b/c', 'h:mm' and 'a/b/c h:mm': the three numbers of a date    *)
(* are read month/day/year unless the first exceeds 12 (day/month/year) or *)
(* 31 (year/month/day); a year below 100 is moved into the century around  *)
(* the current year; components the text lacks come from the default.      *)
(* Text of another shape is unparseable (TypeError, as _to_datetime        *)
(* classifies it); a day, month, hour or minute out of range makes the     *)
(* date impossible (ValueError).                                           *)
(***************************************************************************)
DEFAULT_DATETIME ==
    [type |-> "datetime", year |-> 9999, month |-> 12, day |-> 31, hour |-> 0, minute |-> 0]

ThisYear == 2015

IsNumber(f) == f # <<>> /\ \A i \in 1..Len(f) : f[i] \in Digits

convertyear(year) ==
    IF year < 100
    THEN LET y == year + (ThisYear \div 100) * 100
         IN  IF Abs(y - ThisYear) >= 50
             THEN (IF y < ThisYear THEN y + 100 ELSE y - 100)
             ELSE y
    ELSE year

IsLeap(y) == (y % 4 = 0 /\ y % 100 # 0) \/ y % 400 = 0
DaysInMonth(y, m) ==
    IF m = 2 THEN (IF IsLeap(y) THEN 29 ELSE 28)
    ELSE IF m \in {4, 6, 9, 11} THEN 30 ELSE 31

\* the date part 'a/b/c' read as [year, month, day]
ymd(datepart) ==
    LET f == Split(datepart, "/")
        a == DigitsToNat(f[1])
        b == DigitsToNat(f[2])
        c == DigitsToNat(f[3])
    IN  IF a > 31 THEN [year |-> convertyear(a), month |-> b, day |-> c]
        ELSE IF a > 12 THEN [year |-> convertyear(c), month |-> b, day |-> a]
        ELSE [year |-> convertyear(c), month |-> a, day |-> b]

IsDatePart(t) ==
    LET f == Split(t, "/") IN Len(f) = 3 /\ \A i \in 1..3 : IsNumber(f[i])
IsTimePart(t) ==
    LET f == Split(t, ":") IN Len(f) = 2 /\ \A i \in 1..2 : IsNumber(f[i])

\* whether the text has one of the shapes the parser reads
IsStructured(timestr) ==
    LET parts == Split(timestr, " ")
    IN  \/ Len(parts) = 1 /\ (IsDatePart(parts[1]) \/ IsTimePart(parts[1]))
        \/ Len(parts) = 2 /\ IsDatePart(parts[1]) /\ IsTimePart(parts[2])

\* the components the text supplies, the others taken from the default
Fields(timestr) ==
    LET parts == Split(timestr, " ")
        hasdate == IsDatePart(parts[1])
        timepart == IF hasdate THEN (IF Len(parts) = 2 THEN parts[2] ELSE <<>>) ELSE parts[1]
        d == IF hasdate THEN ymd(parts[1])
             ELSE [year |-> DEFAULT_DATETIME.year, month |-> DEFAULT_DATETIME.month,
                   day |-> DEFAULT_DATETIME.day]
        hm == Split(timepart, ":")
    IN  [type |-> "datetime", year |-> d.year, month |-> d.month, day |-> d.day,
         hour |-> IF timepart = <<>> THEN DEFAULT_DATETIME.hour ELSE DigitsToNat(hm[1]),
         minute |-> IF timepart = <<>> THEN DEFAULT_DATETIME.minute ELSE DigitsToNat(hm[2])]

IsRealDatetime(v) ==
    /\ v.year \in 1..9999
    /\ v.month \in 1..12
    /\ v.day \in 1..DaysInMonth(v.year, v.month)
    /\ v.hour \in 0..23
    /\ v.minute \in 0..59

parse(timestr) ==
    IF ~IsStructured(timestr) THEN Raise("TypeError")
    ELSE IF ~IsRealDatetime(Fields(timestr)) THEN Raise("ValueError")
    ELSE Return(Fields(timestr))

\* datetime.date(), datetime.time()
date(v) == [v EXCEPT !.type = "date", !.hour = 0, !.minute = 0]
time(v) == [v EXCEPT !.type = "time", !.year = 1900, !.month = 1, !.day = 1]

\* strftime: a format is a sequence of directives and literal characters
Directive(v, tok) ==
    CASE tok = "%Y" -> Pad(v.year, 4)
      [] tok = "%m" -> Pad(v.month, 2)
      [] tok = "%d" -> Pad(v.day, 2)
      [] tok = "%H" -> Pad(v.hour, 2)
      [] tok = "%M" -> Pad(v.minute, 2)
      [] tok = "%S" -> <<"0", "0">>
      [] OTHER -> <<tok>>
RECURSIVE strftimeChars(_, _)
strftimeChars(v, fmt) ==
    IF fmt = <<>> THEN <<>> ELSE Directive(v, Head(fmt)) \o strftimeChars(v, Tail(fmt))
strftime(v, fmt) == PyStr(strftimeChars(v, fmt))

(***************************************************************************)
(* The state: the call being made, its arguments, and its outcome.         *)
(* options, attempts and bad_num follow the lazy iterators of to_datetime: *)
(* options is what is still to be handed to _to_datetime, attempts is what *)
(* has been handed to it so far.                                           *)
(***************************************************************************)
VARIABLES pc, fn, content, thousand_sep, decimal_sep, kwargs, trues,
          dt_format, bad_num, options, attempts, datetime, result

vars == <<pc, fn, content, thousand_sep, decimal_sep, kwargs, trues,
          dt_format, bad_num, options, attempts, datetime, result>>

\* an optional argument: absent, or given with a value
Absent == [given |-> FALSE, v |-> 0]
AbsentFlag == [given |-> FALSE, v |-> FALSE]
Given(x) == [given |-> TRUE, v |-> x]
NoKwargs == [places |-> Absent, roundup |-> AbsentFlag]
get(opt, default) == IF opt.given THEN opt.v ELSE default

NoTrues == [given |-> FALSE, v |-> <<>>]
NoFormat == [given |-> FALSE, v |-> <<>>]

Init ==
    /\ pc = "idle"
    /\ fn = "none"
    /\ content = None
    /\ thousand_sep = ","
    /\ decimal_sep = "."
    /\ kwargs = NoKwargs
    /\ trues = NoTrues
    /\ dt_format = NoFormat
    /\ bad_num = <<>>
    /\ options = <<>>
    /\ attempts = <<>>
    /\ datetime = ReturnNone
    /\ result = ReturnNone

(***************************************************************************)
(* The numeric coercers.                                                   *)
(***************************************************************************)
\* try: ... except <caught>: value = None
Except(outcome, caught) ==
    IF outcome.kind = "raise" /\ outcome.exc \in caught THEN ReturnNone ELSE outcome

\* float(...), int(...), Decimal(...) applied to what the nested call gave:
\* an exception raised inside passes through
FloatOf(outcome) == IF outcome.kind = "ok" THEN float(outcome.val) ELSE outcome
IntOf(outcome) == IF outcome.kind = "ok" THEN Return(int(outcome.val)) ELSE outcome
DecimalOf(outcome) == IF outcome.kind = "ok" THEN Decimal(outcome.val) ELSE outcome

to_int(value, tsep, dsep) ==
    {Except(IntOf(FloatOf(st)), {"ValueError"}) : st \in strip(value, tsep, dsep)}

to_float(value, tsep, dsep) ==
    {Except(FloatOf(st), {"ValueError"}) : st \in strip(value, tsep, dsep)}

\* '.%s1' % ''.join(it.repeat('0', places - 1))
precision(places) == <<".">> \o Repeat("0", places - 1) \o <<"1">>

Rounding(kw) == IF get(kw.roundup, TRUE) THEN "ROUND_HALF_UP" ELSE "ROUND_HALF_DOWN"

\* the else branch of to_decimal: the quantization of the parsed decimal
Quantized(decimalized, kw) ==
    LET places == get(kw.places, 2)
        template == Numeral(precision(places))
    IN  Return(quantize(decimalized, template.d, Rounding(kw)))

to_decimal(value, tsep, dsep, kw) ==
    LET Parsed(st) == Except(DecimalOf(st), {"InvalidOperation"})
    IN  {IF Parsed(st).kind = "ok" THEN Quantized(Parsed(st).val, kw) ELSE Parsed(st) :
            st \in strip(value, tsep, dsep)}

(***************************************************************************)
(* to_bool.                                                                *)
(***************************************************************************)
DEF_TRUES == {<<"t", "r", "u", "e">>, <<"y">>, <<"1">>}

\* bool(x) for the non-text values
bool(x) ==
    CASE x.type = "NoneType" -> FALSE
      [] x.type = "bool" -> x = PyTrue
      [] x.type = "int" -> DigitsToNat(x.s) # 0
      [] OTHER -> x.s # <<>>

\* `if trues`: None and the empty collection are both false
Truthy(tr) == tr.given /\ tr.v # <<>>

\* map(str.lower, trues): str.lower is the method of the byte string type
\* and refuses any other object
MapStrLower(tokens) ==
    IF \E i \in 1..Len(tokens) : tokens[i].type # "str"
    THEN Raise("TypeError")
    ELSE Return({LowerSeq(tokens[i].s) : i \in 1..Len(tokens)})

\* content.lower() in trues, and bool(content) when content has no lower()
Test(value, trueset) ==
    IF IsText(value)
    THEN Return(IF LowerSeq(value.s) \in trueset THEN PyTrue ELSE PyFalse)
    ELSE Return(IF bool(value) THEN PyTrue ELSE PyFalse)

to_bool(value, tr) ==
    IF Truthy(tr)
    THEN (IF MapStrLower(tr.v).kind = "ok"
          THEN Test(value, MapStrLower(tr.v).val)
          ELSE MapStrLower(tr.v))
    ELSE Test(value, DEF_TRUES)

(***************************************************************************)
(* Inputs.                                                                 *)
(***************************************************************************)
NumberTexts ==
    { <<"1", ".", "5", "5", "4">>, <<"1", ".", "5", "5", "5">>,
      <<"1", ".", "5", "5", "6">>, <<"-", "1", ".", "5", "5", "5">>,
      <<"1", ".", "2", "5">>, <<"-", "0", ".", "3", "5">>, <<"0", ".", "5">>,
      <<"7">>, <<"1", ".", "0", "0", "0", "5">>, <<"2", ".", "4", "5", "0", "1">>,
      <<"$", "1", "2", "3", ".", "4", "5">>, <<"1", "2", "3", "E">>,
      <<"2", ",", "1", "2", "3", ".", "4", "5">>,
      <<"2", ".", "1", "2", "3", ",", "4", "5">>,
      <<"s", "p", "a", "m">>, <<>> }
NumberInputs == {PyUnicode(t) : t \in NumberTexts} \cup {None}
SeparatorPairs == {<<",", ".">>, <<".", ",">>}
PlacesOptions == {Absent} \cup {Given(k) : k \in 0..MaxPlaces}
RoundupOptions == {AbsentFlag, Given(TRUE), Given(FALSE)}

BoolTexts ==
    { <<"t", "r", "u", "e">>, <<"T", "r", "u", "e">>, <<"y">>, <<"Y">>, <<"1">>,
      <<"n">>, <<"f", "a", "l", "s", "e">>, <<"s", "i">>, <<"S", "i">>, <<>> }
BoolInputs ==
    {PyUnicode(t) : t \in BoolTexts} \cup
    {None, PyTrue, PyFalse, PyInt(<<"0">>), PyInt(<<"1">>)}
TrueTokens == {PyStr(<<"S", "i">>), PyStr(<<"y">>), PyUnicode(<<"s", "i">>)}
RECURSIVE SeqsUpTo(_, _)
SeqsUpTo(S, k) ==
    IF k = 0 THEN {<<>>}
    ELSE LET shorter == SeqsUpTo(S, k - 1)
         IN  shorter \cup {Append(q, x) : q \in shorter, x \in S}
TruesOptions == {NoTrues} \cup {[given |-> TRUE, v |-> q] : q \in SeqsUpTo(TrueTokens, MaxTrues)}

(***************************************************************************)
(* One call of a one-step coercer.                                         *)
(***************************************************************************)
CallToInt ==
    /\ pc = "idle"
    /\ \E v \in NumberInputs, sep \in SeparatorPairs :
        /\ content' = v /\ thousand_sep' = sep[1] /\ decimal_sep' = sep[2]
        /\ result' \in to_int(v, sep[1], sep[2])
    /\ fn' = "to_int" /\ pc' = "done"
    /\ UNCHANGED <<kwargs, trues, dt_format, bad_num, options, attempts, datetime>>

CallToFloat ==
    /\ pc = "idle"
    /\ \E v \in NumberInputs, sep \in SeparatorPairs :
        /\ content' = v /\ thousand_sep' = sep[1] /\ decimal_sep' = sep[2]
        /\ result' \in to_float(v, sep[1], sep[2])
    /\ fn' = "to_float" /\ pc' = "done"
    /\ UNCHANGED <<kwargs, trues, dt_format, bad_num, options, attempts, datetime>>

CallToDecimal ==
    /\ pc = "idle"
    /\ \E v \in NumberInputs, sep \in SeparatorPairs,
          pl \in PlacesOptions, ru \in RoundupOptions :
        /\ content' = v /\ thousand_sep' = sep[1] /\ decimal_sep' = sep[2]
        /\ kwargs' = [places |-> pl, roundup |-> ru]
        /\ result' \in to_decimal(v, sep[1], sep[2], kwargs')
    /\ fn' = "to_decimal" /\ pc' = "done"
    /\ UNCHANGED <<trues, dt_format, bad_num, options, attempts, datetime>>

CallToBool ==
    /\ pc = "idle"
    /\ \E v \in BoolInputs, tr \in TruesOptions :
        /\ content' = v /\ trues' = tr
        /\ result' = to_bool(v, tr)
    /\ fn' = "to_bool" /\ pc' = "done"
    /\ UNCHANGED <<thousand_sep, decimal_sep, kwargs, dt_format, bad_num, options, attempts, datetime>>

(***************************************************************************)
(* to_datetime, to_date, to_time.                                          *)
(***************************************************************************)
\* it.imap(str, xrange(29, 33)) and it.imap(str, xrange(31, 27, -1))
bad_nums_descending == <<str(32), str(31), str(30), str(29)>>
bad_nums == <<str(29), str(30), str(31), str(32)>>
good_nums_ascending == <<str(28), str(29), str(30), str(31)>>
good_nums == <<str(31), str(30), str(29), str(28)>>

\* it.ifilter(lambda x: x in content, nums).next(); <<>> stands for StopIteration
FirstPresent(text, nums) ==
    IF \E i \in 1..Len(nums) : Contains(text, nums[i])
    THEN nums[CHOOSE i \in 1..Len(nums) :
                /\ Contains(text, nums[i])
                /\ \A j \in 1..(i - 1) : ~Contains(text, nums[j])]
    ELSE <<>>

\* the possibilities alone, the content itself left out of the chain
OptionsWithoutContent(value, bn) ==
    IF bn = <<>> THEN <<value>>
    ELSE [i \in 1..Len(good_nums) |-> [value EXCEPT !.s = replace(value.s, bn, good_nums[i])]]

\* options: the content alone, or the content followed by the possibilities
Options(value, bn) ==
    IF bn = <<>> THEN <<value>>
    ELSE <<value>> \o
         [i \in 1..Len(good_nums) |-> [value EXCEPT !.s = replace(value.s, bn, good_nums[i])]]

_to_datetime(value) ==
    LET parsed == parse(value.s)
    IN  IF parsed.kind = "ok" THEN [value |-> parsed.val, retry |-> FALSE]
        ELSE IF parsed.exc = "ValueError" THEN [value |-> value, retry |-> TRUE]
        ELSE [value |-> None, retry |-> FALSE]

\* `if dt_format`: None and the empty format are both false
HasFormat(fmt) == fmt.given /\ fmt.v # <<>>

\* good_value.strftime(dt_format) if dt_format else good_value
Rendered(good_value, fmt) ==
    IF HasFormat(fmt)
    THEN (IF good_value = None THEN Raise("AttributeError")
          ELSE Return(strftime(good_value, fmt.v)))
    ELSE (IF good_value = None THEN ReturnNone ELSE Return(good_value))

\* to_datetime(content).date() or .time(), then the optional rendering
Projected(inner, component, fmt) ==
    IF inner.kind = "raise" THEN inner
    ELSE IF inner.kind = "null" THEN Raise("AttributeError")
    ELSE LET value == IF component = "date" THEN date(inner.val) ELSE time(inner.val)
         IN  IF HasFormat(fmt) THEN Return(strftime(value, fmt.v)) ELSE Return(value)

\* what the called function returns once to_datetime has returned `inner`
Final(f, inner, fmt) ==
    CASE f = "to_date" -> Projected(inner, "date", fmt)
      [] f = "to_time" -> Projected(inner, "time", fmt)
      [] OTHER -> inner

\* the format to_datetime itself is given: to_date and to_time pass none
InnerFormat(f, fmt) == IF f = "to_datetime" THEN fmt ELSE NoFormat

(***************************************************************************)
(* Date inputs.                                                            *)
(***************************************************************************)
\* days of the month in the inputs go up to MaxDay
MaxDay == 33
Months == {2, 4, 12}
Days == {4} \cup 28..MaxDay
Years == {82, 84, 29, 30, 32}
Times == {<<>>, <<12, 15>>, <<12, 29>>, <<12, 30>>}

DateText(m, d, y, t) ==
    str(m) \o <<"/">> \o str(d) \o <<"/">> \o str(y) \o
    (IF t = <<>> THEN <<>> ELSE <<" ">> \o str(t[1]) \o <<":">> \o Pad(t[2], 2))

Garbage == <<"N", "o", "v", "m", "b", "r", " ", "4">>
TimeOnly == <<"1", "0", ":", "0", "0">>

DateInputs ==
    {PyUnicode(DateText(m, d, y, t)) : m \in Months, d \in Days, y \in Years, t \in Times}
    \cup {PyUnicode(Garbage), PyUnicode(TimeOnly), None}

DatetimeFormat == <<"%Y", "-", "%m", "-", "%d", " ", "%H", ":", "%M", ":", "%S">>
DateFormat == <<"%Y", "-", "%m", "-", "%d">>
TimeFormat == <<"%H", ":", "%M", ":", "%S">>
FormatOptions(fmt) == {NoFormat, [given |-> TRUE, v |-> <<>>], [given |-> TRUE, v |-> fmt]}

(***************************************************************************)
(* A call of to_datetime, directly or from to_date / to_time: the search   *)
(* for the bad number and the construction of the options, then one parse  *)
(* per step until a parse does not ask for a retry.                        *)
(***************************************************************************)
Begin(f, value, fmt) ==
    /\ fn' = f /\ content' = value /\ dt_format' = fmt
    /\ attempts' = <<>>
    /\ IF IsText(value)
       THEN /\ bad_num' = FirstPresent(value.s, bad_nums)
            /\ options' = Options(value, bad_num')
            /\ pc' = "parsing"
            /\ UNCHANGED <<datetime, result>>
       ELSE \* `x in content` fails with TypeError, which is not StopIteration
            /\ bad_num' = <<>>
            /\ options' = <<>>
            /\ datetime' = Raise("TypeError")
            /\ result' = Final(f, datetime', fmt)
            /\ pc' = "done"
    /\ UNCHANGED <<thousand_sep, decimal_sep, kwargs, trues>>

CallToDatetime ==
    /\ pc = "idle"
    /\ \E v \in DateInputs, fmt \in FormatOptions(DatetimeFormat) : Begin("to_datetime", v, fmt)

CallToDate ==
    /\ pc = "idle"
    /\ \E v \in DateInputs, fmt \in FormatOptions(DateFormat) : Begin("to_date", v, fmt)

CallToTime ==
    /\ pc = "idle"
    /\ \E v \in DateInputs, fmt \in FormatOptions(TimeFormat) : Begin("to_time", v, fmt)

\* the parse of the next option signals an impossible date: ifilterfalse drops it
Retry ==
    /\ pc = "parsing"
    /\ options # <<>>
    /\ _to_datetime(Head(options)).retry
    /\ attempts' = Append(attempts, Head(options))
    /\ options' = Tail(options)
    /\ UNCHANGED <<pc, fn, content, thousand_sep, decimal_sep, kwargs, trues,
                   dt_format, bad_num, datetime, result>>

\* the parse of the next option does not ask for a retry: it is the good value
ReturnGood ==
    /\ pc = "parsing"
    /\ options # <<>>
    /\ ~_to_datetime(Head(options)).retry
    /\ attempts' = Append(attempts, Head(options))
    /\ options' = Tail(options)
    /\ datetime' = Rendered(_to_datetime(Head(options)).value, InnerFormat(fn, dt_format))
    /\ result' = Final(fn, datetime', dt_format)
    /\ pc' = "done"
    /\ UNCHANGED <<fn, content, thousand_sep, decimal_sep, kwargs, trues, dt_format, bad_num>>

\* no option is left: results.next() raises StopIteration and datetime = None
Exhausted ==
    /\ pc = "parsing"
    /\ options = <<>>
    /\ datetime' = ReturnNone
    /\ result' = Final(fn, datetime', dt_format)
    /\ pc' = "done"
    /\ UNCHANGED <<fn, content, thousand_sep, decimal_sep, kwargs, trues, dt_format,
                   bad_num, options, attempts>>

Next ==
    \/ CallToInt
    \/ CallToFloat
    \/ CallToDecimal
    \/ CallToBool
    \/ CallToDatetime
    \/ CallToDate
    \/ CallToTime
    \/ Retry
    \/ ReturnGood
    \/ Exhausted

Spec == Init /\ [][Next]_vars

(***************************************************************************)
(* Properties.                                                             *)
(***************************************************************************)
NumericCoercers == {"to_int", "to_float", "to_decimal"}
DatetimeCoercers == {"to_datetime", "to_date", "to_time"}
Done(f) == pc = "done" /\ fn = f

\* C1: to_int, to_float and to_decimal are total: for every input (numeric
\* text, non-numeric text, empty text, None) and every separator pair the
\* call returns a parsed value or None, and no exception escapes.
C1_NumericCoercersAreTotal ==
    (pc = "done" /\ fn \in NumericCoercers) => result.kind \in {"ok", "null"}

\* C2: when the first parse is classified as unparseable (not as an
\* impossible date), to_datetime returns None whether or not a dt_format is
\* supplied, no substituted candidate is parsed and no exception escapes.
FirstParseUnparseable ==
    /\ attempts # <<>>
    /\ parse(attempts[1].s).kind = "raise"
    /\ parse(attempts[1].s).exc = "TypeError"
C2_UnparseableYieldsNull ==
    (Done("to_datetime") /\ FirstParseUnparseable) =>
        /\ result = ReturnNone
        /\ Len(attempts) = 1

\* C3: to_date / to_time return the date / time component of what
\* to_datetime returns, and None (with no exception) when to_datetime
\* returns None.
ComponentOf(v) == IF fn = "to_date" THEN date(v) ELSE time(v)
C3_ProjectionOfToDatetime ==
    (pc = "done" /\ fn \in {"to_date", "to_time"}) =>
        /\ datetime.kind = "null" => result = ReturnNone
        /\ datetime.kind = "ok" =>
              result = IF HasFormat(dt_format)
                       THEN Return(strftime(ComponentOf(datetime.val), dt_format.v))
                       ELSE Return(ComponentOf(datetime.val))

\* The number the text of a to_decimal call denotes, and the number of
\* places asked for (2 when the option is absent).
ParsedContent == Numeral(StripChars(content.s, thousand_sep, decimal_sep))
PlacesAsked == IF kwargs.places.given THEN kwargs.places.v ELSE 2
Max(a, b) == IF a > b THEN a ELSE b

\* C4: to_decimal rounds to the nearest value with `places` fractional
\* digits; on an exact tie roundup=True (the default) gives the value of
\* larger magnitude and roundup=False the one of smaller magnitude; off a
\* tie both settings give the one nearest value.
C4_RoundsToNearestAtPlaces ==
    (Done("to_decimal") /\ result.kind = "ok") =>
        LET x == ParsedContent
            r == result.val
            scale == Max(Max(x.d, r.d), PlacesAsked)
            X == x.n * Pow10(scale - x.d)
            R == r.n * Pow10(scale - r.d)
            unit == Pow10(scale - PlacesAsked)
            roundup == IF kwargs.roundup.given THEN kwargs.roundup.v ELSE TRUE
        IN  /\ R % unit = 0
            /\ 2 * Abs(R - X) <= unit
            /\ 2 * Abs(R - X) = unit =>
                  IF roundup THEN Abs(R) > Abs(X) ELSE Abs(R) < Abs(X)

\* C5: for every non-negative `places` the quantization template has exactly
\* `places` fractional digits, and so has the returned decimal.
C5_ExactlyPlacesDigits ==
    (Done("to_decimal") /\ result.kind = "ok") =>
        /\ Len(precision(PlacesAsked)) - 1 = PlacesAsked
        /\ result.val.d = PlacesAsked

\* C6: to_bool always returns a boolean and never raises; for text the
\* result is True exactly when the lower-cased text is in the lower-cased
\* supplied trues collection (whatever its size), or in the default set when
\* none is supplied; otherwise it is the truthiness of the input.
SuppliedTrues == {LowerSeq(trues.v[i].s) : i \in 1..Len(trues.v)}
C6_BoolByMembership ==
    Done("to_bool") =>
        /\ result.kind = "ok"
        /\ result.val \in {PyTrue, PyFalse}
        /\ IsText(content) =>
              (result.val = PyTrue <=>
                  LowerSeq(content.s) \in (IF trues.given THEN SuppliedTrues ELSE DEF_TRUES))
        /\ ~IsText(content) => (result.val = PyTrue <=> bool(content))

\* C7: for a structurally valid date whose day (29 to 32) is out of range for
\* its month, to_datetime returns the same year, month and time of day with
\* the day clamped to the last day of that month; only the day changes.
HasDatePart(text) == IsStructured(text) /\ IsDatePart(Split(text, " ")[1])
DayOutOfRange(text) ==
    /\ HasDatePart(text)
    /\ LET f == Fields(text)
       IN  /\ f.month \in 1..12 /\ f.hour \in 0..23 /\ f.minute \in 0..59
           /\ f.day \in 29..32
           /\ f.day > DaysInMonth(f.year, f.month)
Clamped(text) ==
    LET f == Fields(text) IN [f EXCEPT !.day = DaysInMonth(f.year, f.month)]
C7_OnlyTheDayIsClamped ==
    (Done("to_datetime") /\ IsText(content) /\ DayOutOfRange(content.s)) =>
        result = IF HasFormat(dt_format)
                 THEN Return(strftime(Clamped(content.s), dt_format.v))
                 ELSE Return(Clamped(content.s))

\* C8 as stated: with more than one of '29', '30', '31', '32' in the input,
\* the substring selected for substitution is the first one present in the
\* order 32, 31, 30, 29.
Present(text) ==
    {n \in {<<"2", "9">>, <<"3", "0">>, <<"3", "1">>, <<"3", "2">>} : Contains(text, n)}
Searched == pc # "idle" /\ fn \in DatetimeCoercers /\ IsText(content)
SeveralPresent == Searched /\ Cardinality(Present(content.s)) > 1
C8_SelectsHighestPresent ==
    SeveralPresent =>
        bad_num = CHOOSE n \in Present(content.s) :
                      \A m \in Present(content.s) : DigitsToNat(m) <= DigitsToNat(n)

\* C8 amended: with more than one of '29', '30', '31', '32' in the input,
\* the substring selected for substitution is the first one present in the
\* order 29, 30, 31, 32, and it is the one the candidates replace.
Candidates == << <<"3", "1">>, <<"3", "0">>, <<"2", "9">>, <<"2", "8">> >>
Lowest(text) ==
    CHOOSE n \in Present(text) : \A m \in Present(text) : DigitsToNat(n) <= DigitsToNat(m)
C8_SelectsLowestPresent ==
    SeveralPresent =>
        /\ bad_num = Lowest(content.s)
        /\ \A i \in 2..Len(attempts) :
              attempts[i].s = replace(content.s, Lowest(content.s), Candidates[i - 1])
C8_Witness ==
    /\ SeveralPresent
    /\ Contains(content.s, <<"3", "2">>) /\ Contains(content.s, <<"2", "9">>)
    /\ bad_num = <<"2", "9">>
    /\ Len(attempts) > 1

\* C9: after an initial parse that signals an impossible date, the
\* candidates are parsed in the order 31, 30, 29, 28; the result is that of
\* the first candidate that does not signal an impossible date, none is
\* parsed after it, at most 4 are parsed, and the result is None when every
\* candidate signals an impossible date.
Impossible(text) == parse(text).kind = "raise" /\ parse(text).exc = "ValueError"
InitialImpossible ==
    /\ fn = "to_datetime" /\ attempts # <<>>
    /\ attempts[1] = content /\ Impossible(content.s)
C9_CandidatesInOrder ==
    InitialImpossible =>
        LET last == attempts[Len(attempts)].s
        IN  /\ Len(attempts) - 1 <= 4
            /\ \A i \in 2..Len(attempts) :
                  attempts[i].s = replace(content.s, bad_num, Candidates[i - 1])
            /\ \A i \in 1..(Len(attempts) - 1) : Impossible(attempts[i].s)
            /\ pc = "parsing" => Impossible(last)
            /\ pc = "done" =>
                  IF Impossible(last)
                  THEN /\ result = ReturnNone
                       /\ bad_num # <<>> => Len(attempts) - 1 = 4
                  ELSE result = IF HasFormat(dt_format)
                                THEN Return(strftime(parse(last).val, dt_format.v))
                                ELSE Return(parse(last).val)
C9_Witness ==
    /\ InitialImpossible /\ pc = "done"
    /\ Len(attempts) = 4
    /\ Impossible(attempts[3].s)
    /\ result.kind = "ok"

\* C10: when the initial parse succeeds, to_datetime returns the value of
\* that parse of the unmodified input (rendered through dt_format when one
\* is given), even when the input contains one of '29' to '32'; no
\* substituted candidate is parsed.
C10_InitialParseIsReturned ==
    (Done("to_datetime") /\ IsText(content) /\ parse(content.s).kind = "ok") =>
        /\ attempts = <<content>>
        /\ result = IF HasFormat(dt_format)
                    THEN Return(strftime(parse(content.s).val, dt_format.v))
                    ELSE Return(parse(content.s).val)
C10_Witness ==
    /\ Done("to_datetime") /\ IsText(content)
    /\ parse(content.s).kind = "ok"
    /\ Present(content.s) # {}
    /\ bad_num # <<>>
    /\ Len(options) = 4
    /\ result.kind = "ok"

====
